---- MODULE Spec2Model ----
(***************************************************************************)
(* A model of the wealthescrow_bot repository:                             *)
(*   app_tdlib.py   channel provisioning (/create) through a user session  *)
(*   bot.py         /seller, /buyer, /pay and the in-memory role registry  *)
(*   bot_groups.py  /pay and the payment target resolver with a Lightning  *)
(*                  preference                                             *)
(*   btcpay.py      the gateway helper module and its resolver             *)
(*                                                                         *)
(* Python strings are sequences of tokens (the empty string is << >>), an  *)
(* optional value (None or a string) is a sequence of length 0 or 1, and a *)
(* dict is a function whose domain is the set of keys it has.              *)
(***************************************************************************)
EXTENDS Integers, Sequences, FiniteSets, TLC

\* ------------------------------------------------------------------ bounds
\* Number of /create commands handled by app_tdlib.py.
NumReq == 1
\* Number of commands delivered to the bot.py / bot_groups.py dispatchers.
MaxUpdates == 2
\* Longest payment-method list of an invoice.
MaxMethods == 2
\* Number of calls of the gateway functions.
MaxCalls == 2
\* Number of /create commands handled concurrently up to the invite-link step.
NumRuns == 2

VARIABLES
    \* app_tdlib.py
    BOT_USERNAME_CACHE, \* None (<< >>) or <<username>>
    main_pc,            \* position of main(): "start" or "idle"
    chats,              \* the channels that exist on the platform: id -> title
    req,                \* one handle_create run per /create command
    \* bot.py, bot_groups.py
    user_roles,         \* bot.py's registry dict
    updates,            \* the commands delivered so far
    sent,               \* the messages the bots have sent
    http,               \* the requests issued to the gateway
    pay_tasks,          \* bot.py cmd_pay runs waiting in asyncio.sleep
    deleted,            \* the messages deleted so far
    now,                \* the time of the event loop
    stamps,             \* when each payment display was posted, each message deleted
    \* resolvers
    invoice,            \* the invoice JSON the gateway returns
    qr,                 \* the outcome of each resolver on that invoice
    \* /create of bot.py and bot_groups.py
    TOPIC_IDS,          \* the topic ids read from the environment
    invites,            \* the invite links created so far
    exceptions,         \* the exceptions that left a handler uncaught
    \* gateway clients
    env,                \* the credentials set in the environment
    lib_calls           \* the calls of the gateway functions, with their results

vars == <<BOT_USERNAME_CACHE, main_pc, chats, req, user_roles, updates, sent,
          http, pay_tasks, deleted, now, stamps, invoice, qr, TOPIC_IDS,
          invites, exceptions, env, lib_calls>>

provVars == <<BOT_USERNAME_CACHE, main_pc, chats, req>>
botVars == <<user_roles, updates, sent, http, pay_tasks, deleted, now, stamps>>
resVars == <<invoice, qr>>
inviteVars == <<TOPIC_IDS, invites, exceptions>>
gateVars == <<env, lib_calls>>

\* ------------------------------------------------------- Python primitives
None == << >>
Some(s) == <<s>>

\* dict.get(key): None when the key is absent.
Get(d, k) == IF k \in DOMAIN d THEN Some(d[k]) ELSE None

\* dict.get(key, default)
GetOr(d, k, default) == IF k \in DOMAIN d THEN d[k] ELSE default

\* Truthiness of an optional string: None and "" are falsy.
Truthy(o) == o # None /\ o[1] # << >>

\* str(x) inside an f-string: None prints as the text None.
Str(o) == IF o = None THEN <<"None">> ELSE o[1]

\* sub in s, for a token sub
Contains(sub, s) == \E i \in 1..Len(s) : s[i] = sub

\* Faulty variant of Split: text.split(" ") keeps what follows a blank.
SplitOnBlankMut(text) == text
\* text.split(): the whitespace-separated words of a text.
Split(text) == SelectSeq(text, LAMBDA t : t # " ")

\* ============================================================ app_tdlib.py
Requests == 1..NumReq

GROUP_BASE_NAME == "Escrow"
BotUsername == "WealthEscrowBot"

\* generate_suffix(5): one of the 26^5 lowercase codes, two of them here.
Suffixes == {"jqbdp", "abcde"}

\* What generate_suffix may return: random.choice over the alphabet, 5 times.
generate_suffix == Suffixes

Call(name, by, ok) == [call |-> name, by |-> by, ok |-> ok]

Reply(kind, title, link, detail) ==
    [kind |-> kind, title |-> title, link |-> link, detail |-> detail]

InitReq ==
    [pc |-> "idle", title |-> << >>, chat |-> 0, link |-> None, ret |-> None,
     raised |-> None, calls |-> << >>, replies |-> << >>, invited |-> << >>]

\* Where control goes after each awaited call of create_new_group, given
\* whether the call succeeded.  "except" is handle_create's except clause.
\* Faulty variant of AfterGetMe: a failed lookup is ignored.
GetMeContinuesMut(ok) == "create"
\* me = await bot.get_me(), outside any try of its own
AfterGetMe(ok) == IF ok THEN "create" ELSE "except"

\* Faulty variant of AfterCreate: a failed creation is swallowed.
CreateContinuesMut(ok) == "add"
\* chat = await user.create_supergroup(...), outside any try of its own
AfterCreate(ok) == IF ok THEN "add" ELSE "except"

\* Faulty variant of AfterAdd: the call is not wrapped in try/except.
AddAbortsMut(ok) == IF ok THEN "promote" ELSE "except"
\* try: add_chat_members ... except Exception: pass
AfterAdd(ok) == "promote"

\* try: promote_chat_member ... except Exception: pass
AfterPromote(ok) == "export"

\* Faulty variant of AfterExport: no fallback call in the except clause.
ExportNoFallbackMut(ok) == IF ok THEN "reply_ok" ELSE "except"
\* try: export_chat_invite_link ... except Exception: create_chat_invite_link
AfterExport(ok) == IF ok THEN "reply_ok" ELSE "fallback"

AfterFallback(ok) == IF ok THEN "reply_ok" ELSE "except"

\* f"@{BOT_USERNAME_CACHE}", formatted when the call is made.
Mention(cache) == <<"@">> \o (IF cache = None THEN <<"None">> ELSE cache)

\* The statement an exception raised by the call leaves pending.
Raise(q, name, ok) == IF ok THEN q.raised ELSE Some(name)

\* Faulty variant of Logged: every call goes through the bot client.
LoggedByBotMut(q, name, by, ok) == Append(q.calls, Call(name, "bot", ok))
\* The call is issued through the client named: user.<name>(...) or
\* bot.<name>(...); message.reply goes through the bot that got the command.
Logged(q, name, by, ok) == Append(q.calls, Call(name, by, ok))

\* main(): both clients are started, then the username is cached.
main ==
    /\ main_pc = "start"
    /\ BOT_USERNAME_CACHE' = Some(BotUsername)
    /\ main_pc' = "idle"
    /\ UNCHANGED <<chats, req, botVars, resVars,
                   inviteVars, gateVars>>

\* handle_create up to the first await inside create_new_group: the
\* "Creating..." reply, then the test of the username cache.
handle_create(r) ==
    /\ req[r].pc = "idle"
    /\ req' = [req EXCEPT
         ![r].replies = Append(@, Reply("creating", << >>, None, None)),
         ![r].calls = Logged(req[r], "reply", "bot", TRUE),
         ![r].pc = IF BOT_USERNAME_CACHE = None THEN "get_me" ELSE "create"]
    /\ UNCHANGED <<BOT_USERNAME_CACHE, main_pc, chats, botVars, resVars,
                   inviteVars, gateVars>>

\* me = await bot.get_me(); BOT_USERNAME_CACHE = me.username
get_me(r) ==
    /\ req[r].pc = "get_me"
    /\ \E ok \in BOOLEAN :
         /\ req' = [req EXCEPT
              ![r].calls = Logged(req[r], "get_me", "bot", ok),
              ![r].raised = Raise(req[r], "get_me", ok),
              ![r].pc = AfterGetMe(ok)]
         /\ BOT_USERNAME_CACHE' =
              IF ok THEN Some(BotUsername) ELSE BOT_USERNAME_CACHE
    /\ UNCHANGED <<main_pc, chats, botVars, resVars,
                   inviteVars, gateVars>>

\* code = generate_suffix(5); title = ...; chat = await user.create_supergroup
create_supergroup(r) ==
    /\ req[r].pc = "create"
    /\ \E code \in generate_suffix, ok \in BOOLEAN :
         LET title == <<GROUP_BASE_NAME, " #", code>>
             id == Cardinality(DOMAIN chats) + 1
         IN /\ req' = [req EXCEPT
                 ![r].title = title,
                 ![r].chat = IF ok THEN id ELSE 0,
                 ![r].calls = Logged(req[r], "create_supergroup", "user", ok),
                 ![r].raised = Raise(req[r], "create_supergroup", ok),
                 ![r].pc = AfterCreate(ok)]
            /\ chats' = IF ok THEN [c \in DOMAIN chats \cup {id} |->
                                      IF c = id THEN title ELSE chats[c]]
                         ELSE chats
    /\ UNCHANGED <<BOT_USERNAME_CACHE, main_pc, botVars, resVars,
                   inviteVars, gateVars>>

\* await user.add_chat_members(chat.id, [@bot]) inside try/except-pass
add_chat_members(r) ==
    /\ req[r].pc = "add"
    /\ \E ok \in BOOLEAN :
         req' = [req EXCEPT
              ![r].calls = Logged(req[r], "add_chat_members", "user", ok),
              ![r].invited = Append(@, Mention(BOT_USERNAME_CACHE)),
              ![r].raised = IF AfterAdd(ok) = "except"
                             THEN Raise(req[r], "add_chat_members", ok)
                             ELSE @,
              ![r].pc = AfterAdd(ok)]
    /\ UNCHANGED <<BOT_USERNAME_CACHE, main_pc, chats, botVars, resVars,
                   inviteVars, gateVars>>

\* await user.promote_chat_member(...) inside try/except-pass
promote_chat_member(r) ==
    /\ req[r].pc = "promote"
    /\ \E ok \in BOOLEAN :
         req' = [req EXCEPT
              ![r].calls = Logged(req[r], "promote_chat_member", "user", ok),
              ![r].invited = Append(@, Mention(BOT_USERNAME_CACHE)),
              ![r].raised = IF AfterPromote(ok) = "except"
                             THEN Raise(req[r], "promote_chat_member", ok)
                             ELSE @,
              ![r].pc = AfterPromote(ok)]
    /\ UNCHANGED <<BOT_USERNAME_CACHE, main_pc, chats, botVars, resVars,
                   inviteVars, gateVars>>

\* What create_new_group returns once it holds an invite link.
Handle(q, link) == [invite_link |-> link, title |-> q.title, chat_id |-> q.chat]

\* invite_link = await user.export_chat_invite_link(chat.id)
export_chat_invite_link(r) ==
    /\ req[r].pc = "export"
    /\ \E ok \in BOOLEAN :
         LET link == [via |-> "export", chat |-> req[r].chat]
             to == AfterExport(ok)
         IN req' = [req EXCEPT
              ![r].calls = Logged(req[r], "export_chat_invite_link", "user", ok),
              ![r].link = IF ok THEN Some(link) ELSE @,
              ![r].ret = IF ok THEN Some(Handle(req[r], link)) ELSE @,
              ![r].raised = IF to = "except"
                             THEN Raise(req[r], "export_chat_invite_link", ok)
                             ELSE @,
              ![r].pc = to]
    /\ UNCHANGED <<BOT_USERNAME_CACHE, main_pc, chats, botVars, resVars,
                   inviteVars, gateVars>>

\* Faulty variant of Kept: the channel is deleted when no link was obtained.
RollbackMut(cs, id) == [c \in DOMAIN cs \ {id} |-> cs[c]]
\* The channels once the invite-link step has failed: create_new_group makes
\* no call that deletes or leaves the channel, the exception just propagates.
Kept(cs, id) == cs

\* inv = await user.create_chat_invite_link(chat.id), in the except clause
create_chat_invite_link(r) ==
    /\ req[r].pc = "fallback"
    /\ \E ok \in BOOLEAN :
         LET link == [via |-> "create", chat |-> req[r].chat]
         IN /\ req' = [req EXCEPT
              ![r].calls = Logged(req[r], "create_chat_invite_link", "user", ok),
              ![r].link = IF ok THEN Some(link) ELSE @,
              ![r].ret = IF ok THEN Some(Handle(req[r], link)) ELSE @,
              ![r].raised = Raise(req[r], "create_chat_invite_link", ok),
              ![r].pc = AfterFallback(ok)]
            /\ chats' = IF ok THEN chats ELSE Kept(chats, req[r].chat)
    /\ UNCHANGED <<BOT_USERNAME_CACHE, main_pc, botVars, resVars,
                   inviteVars, gateVars>>

\* await message.reply("Created Escrow Group <title> ... Group Link: <link>")
reply_created(r) ==
    /\ req[r].pc = "reply_ok"
    /\ \E ok \in BOOLEAN :
         LET h == req[r].ret[1]
         IN req' = [req EXCEPT
              ![r].calls = Logged(req[r], "reply", "bot", ok),
              ![r].replies = IF ok
                  THEN Append(@, Reply("created", h.title, Some(h.invite_link), None))
                  ELSE @,
              ![r].raised = Raise(req[r], "reply", ok),
              ![r].pc = IF ok THEN "welcome" ELSE "except"]
    /\ UNCHANGED <<BOT_USERNAME_CACHE, main_pc, chats, botVars, resVars,
                   inviteVars, gateVars>>

\* The two bot.send_message(chat_id, ...) calls into the new group.
send_message(r) ==
    /\ req[r].pc \in {"welcome", "notice"}
    /\ \E ok \in BOOLEAN :
         req' = [req EXCEPT
              ![r].calls = Logged(req[r], "send_message", "bot", ok),
              ![r].raised = Raise(req[r], "send_message", ok),
              ![r].pc = IF ~ok THEN "except"
                         ELSE IF req[r].pc = "welcome" THEN "notice" ELSE "done"]
    /\ UNCHANGED <<BOT_USERNAME_CACHE, main_pc, chats, botVars, resVars,
                   inviteVars, gateVars>>

\* except Exception as e: await message.reply(f"Error creating group: {e}")
reply_error(r) ==
    /\ req[r].pc = "except"
    /\ req' = [req EXCEPT
         ![r].calls = Logged(req[r], "reply", "bot", TRUE),
         ![r].replies = Append(@, Reply("error", << >>, None, req[r].raised)),
         ![r].pc = "done"]
    /\ UNCHANGED <<BOT_USERNAME_CACHE, main_pc, chats, botVars, resVars,
                   inviteVars, gateVars>>

InitProvision ==
    /\ BOT_USERNAME_CACHE = None
    /\ main_pc = "start"
    /\ chats = << >>
    /\ req = [r \in Requests |-> InitReq]

NextProvision ==
    \/ main
    \/ \E r \in Requests :
         \/ handle_create(r)
         \/ get_me(r)
         \/ create_supergroup(r)
         \/ add_chat_members(r)
         \/ promote_chat_member(r)
         \/ export_chat_invite_link(r)
         \/ create_chat_invite_link(r)
         \/ reply_created(r)
         \/ send_message(r)
         \/ reply_error(r)


\* ================================================== invoices of the gateway
\* The labels, destinations and amounts a payment method may carry; a key may
\* also be absent from the method (None).
Labels == {<<"BTC">>, <<"BTC", "-", "Lightning", "Network">>}
Destinations == {<< >>, <<"bc1q">>}
Amounts == {<< >>, <<"0.01">>}

Opt(S) == {None} \cup {Some(x) : x \in S}

\* A method dict with the keys that are present.
MkMethod(l, d, a) ==
    LET keys == (IF l = None THEN {} ELSE {"paymentMethod"})
                \cup (IF d = None THEN {} ELSE {"destination"})
                \cup (IF a = None THEN {} ELSE {"amount"})
    IN [k \in keys |-> IF k = "paymentMethod" THEN l[1]
                        ELSE IF k = "destination" THEN d[1] ELSE a[1]]

Methods == {MkMethod(l, d, a) : l \in Opt(Labels), d \in Opt(Destinations),
                                a \in Opt(Amounts)}

MethodLists == UNION {[1..k -> Methods] : k \in 0..MaxMethods}

CheckoutLink == <<"https://pay/i/inv_1">>

\* GET /invoices/{id}: the checkout object or its paymentMethods may be absent.
Invoices ==
    {[checkoutLink |-> CheckoutLink]}
    \cup {[checkoutLink |-> CheckoutLink, checkout |-> << >>]}
    \cup {[checkoutLink |-> CheckoutLink, checkout |-> [paymentMethods |-> ms]] :
            ms \in MethodLists}

\* inv.get("checkout", {}).get("paymentMethods", [])
PaymentMethods(inv) == GetOr(GetOr(inv, "checkout", << >>), "paymentMethods", << >>)

\* "Lightning" in m.get("paymentMethod", "")
IsLightning(m) == Contains("Lightning", GetOr(m, "paymentMethod", << >>))

\* qrcode.make(uri) saved as PNG: a function of the URI alone.
Render(uri) == <<"PNG">> \o uri

\* A raise: no URI is built and no image is rendered.  chosen is the method
\* selected before the raise, 0 when none was.
Failed(kind, i) == [status |-> kind, chosen |-> i, uri |-> None, png |-> None]

Resolved(i, uri) ==
    [status |-> "ok", chosen |-> i, uri |-> Some(uri), png |-> Some(Render(uri))]

\* Faulty variant of OnChainUri: the amount is appended without the test.
AmountAlwaysMut(scheme, address, amount) ==
    <<scheme>> \o Str(address) \o <<"?amount=">> \o Str(amount)
\* uri = f"bitcoin:{address}"; if amount: uri += f"?amount={amount}"
OnChainUri(scheme, address, amount) ==
    <<scheme>> \o Str(address)
    \o (IF Truthy(amount) THEN <<"?amount=">> \o Str(amount) ELSE << >>)

\* Faulty variant of LightningUri: the amount is appended as for on-chain.
LightningAmountMut(address, amount) == OnChainUri("lightning:", address, amount)
\* uri = f"lightning:{address}": the amount read before is not used.
LightningUri(address, amount) == <<"lightning:">> \o Str(address)

\* Faulty variants of Choose: the preference is ignored; the last method wins.
FirstAlwaysMut(methods, prefer_lightning) == 1
LastAlwaysMut(methods, prefer_lightning) == Len(methods)
\* bot_groups.py: the first Lightning method when preferred, else methods[0].
\* Indices are 1-based here.
Choose(methods, prefer_lightning) ==
    LET ln == {i \in 1..Len(methods) : IsLightning(methods[i])}
    IN IF prefer_lightning /\ ln # {}
       THEN CHOOSE i \in ln : \A j \in ln : i <= j
       ELSE 1

\* Faulty variant of NoMethods: the empty list is not tested.
NoEmptyCheckMut(methods) == FALSE
\* if not methods / if not pm
NoMethods(methods) == Len(methods) = 0

\* bot_groups.generate_payment_qr(invoice_id, prefer_lightning), after the fetch.
\* Indexing a list out of range raises IndexError.
bot_groups_generate_payment_qr(inv, prefer_lightning) ==
    LET methods == PaymentMethods(inv)
        i == Choose(methods, prefer_lightning)
        chosen == methods[i]
        address == Get(chosen, "destination")
        amount == Get(chosen, "amount")
    IN IF NoMethods(methods) THEN Failed("NoPaymentMethods", 0)
       ELSE IF i \notin DOMAIN methods THEN Failed("IndexError", 0)
       ELSE IF ~Truthy(address) THEN Failed("NoDestination", i)
       ELSE IF IsLightning(chosen)
            THEN Resolved(i, LightningUri(address, amount))
            ELSE Resolved(i, OnChainUri("bitcoin:", address, amount))

\* btcpay.generate_payment_qr(invoice_id), after the fetch
btcpay_generate_payment_qr(inv) ==
    LET pm == PaymentMethods(inv)
        address == Get(pm[1], "destination")
        amount == Get(pm[1], "amount")
    IN IF NoMethods(pm) THEN Failed("NoPaymentMethods", 0)
       ELSE IF 1 \notin DOMAIN pm THEN Failed("IndexError", 0)
       ELSE IF ~Truthy(address) THEN Failed("NoDestination", 1)
       ELSE Resolved(1, OnChainUri("bitcoin:", address, amount))

\* bot.generate_payment_qr(invoice_id), after the fetch: the destination is
\* formatted into the URI without a test.
bot_generate_payment_qr(inv) ==
    LET pm == PaymentMethods(inv)
        address == Get(pm[1], "destination")
        amount == Get(pm[1], "amount")
    IN IF NoMethods(pm) THEN Failed("NoPaymentMethods", 0)
       ELSE IF 1 \notin DOMAIN pm THEN Failed("IndexError", 0)
       ELSE Resolved(1, OnChainUri("bitcoin:", address, amount))

\* The resolvers of the repository, bot_groups' under both preferences.
Variants == {"bot_groups", "bot_groups_ln", "btcpay", "bot"}

Resolver(v, inv) ==
    CASE v = "bot_groups" -> bot_groups_generate_payment_qr(inv, FALSE)
      [] v = "bot_groups_ln" -> bot_groups_generate_payment_qr(inv, TRUE)
      [] v = "btcpay" -> btcpay_generate_payment_qr(inv)
      [] v = "bot" -> bot_generate_payment_qr(inv)

\* One call of a resolver on the invoice the gateway returns.
generate_payment_qr(v) ==
    /\ qr' = [qr EXCEPT ![v] = Some(Resolver(v, invoice))]
    /\ UNCHANGED <<invoice, provVars, botVars, inviteVars, gateVars>>

InitResolve ==
    /\ invoice \in Invoices
    /\ qr = [v \in Variants |-> None]

NextResolve == \E v \in Variants : generate_payment_qr(v)


\* ====================================================== bot.py, bot_groups.py
Users == {"u1", "u2"}
Wallets == {"addrA", "addrB"}
InvoiceIds == {"inv_1", "inv_9"}

\* The texts of the commands: the bare command, the command and a trailing
\* blank, or the command and one word.
Texts(cmd, args) == {<<cmd>>, <<cmd, " ">>} \cup {<<cmd, " ", a>> : a \in args}

Update(prog, u, text) == [prog |-> prog, from |-> u, text |-> text]

Message(to, kind, body, photo) ==
    [to |-> to, kind |-> kind, body |-> body, photo |-> photo]

\* The invoices the gateway may hold under inv_1 when a /pay command is
\* handled; inv_9 is unknown to it.
PayInvoices ==
    {[checkoutLink |-> CheckoutLink, checkout |-> [paymentMethods |-> ms]] :
       ms \in {<< >>,
               <<MkMethod(Some(<<"BTC">>), Some(<<"bc1q">>), Some(<<"0.01">>))>>,
               <<MkMethod(Some(<<"BTC">>), None, Some(<<"0.01">>))>>}}

\* requests.get(url, ...); resp.raise_for_status(): "ok" or the error raised.
\* A request can fail in transport; an unknown id is rejected.
GetOutcomes(invoice_id) ==
    IF invoice_id = "inv_1" THEN {"ok", "ConnectionError"} ELSE {"HTTPError"}

\* Faulty variant of Register: an existing entry keeps its old address.
RegisterRoleOnlyMut(roles, id, role, wallet) ==
    IF id \in DOMAIN roles
    THEN [roles EXCEPT ![id].role = role]
    ELSE [k \in DOMAIN roles \cup {id} |->
            IF k = id THEN [role |-> role, address |-> wallet] ELSE roles[k]]
\* Faulty variant of Register: the registry is replaced by the one entry.
RegisterClobberMut(roles, id, role, wallet) ==
    [k \in {id} |-> [role |-> role, address |-> wallet]]
\* user_roles[message.from_user.id] = {"role": role, "address": wallet}
Register(roles, id, role, wallet) ==
    [k \in DOMAIN roles \cup {id} |->
       IF k = id THEN [role |-> role, address |-> wallet] ELSE roles[k]]

\* Faulty variant of TooShort: the length of parts is not tested.
NeverTooShortMut(parts) == FALSE
\* if len(parts) < 2
TooShort(parts) == Len(parts) < 2

\* The body shared by cmd_seller and cmd_buyer.
RegisterCommand(cmd, role) ==
    /\ Len(updates) < MaxUpdates
    /\ \E u \in Users, text \in Texts(cmd, Wallets) :
         LET parts == Split(text)
             n == Len(updates) + 1
         IN /\ updates' = Append(updates, Update("bot", u, text))
            /\ IF TooShort(parts)
               THEN /\ sent' = Append(sent, Message(n, "usage", <<cmd>>, None))
                    /\ UNCHANGED user_roles
               ELSE /\ user_roles' = Register(user_roles, u, role, parts[2])
                    /\ sent' = Append(sent,
                                 Message(n, "registered", <<role, parts[2]>>, None))
    /\ UNCHANGED <<http, pay_tasks, deleted, now, stamps, provVars, resVars, inviteVars,
                   gateVars>>

Request(method, invoice_id) == [method |-> method, id |-> invoice_id]

MsgRef(box, n) == [box |-> box, n |-> n]

Stamp(ref, event, at) == [ref |-> ref, event |-> event, at |-> at]

\* await asyncio.sleep(60)
AUTO_DELETE == 60

\* The stamps once a handler has sent its last message: a payment display is
\* stamped with the time it was posted.
Posted(out, st, t) ==
    IF out[Len(out)].kind = "photo"
    THEN st \cup {Stamp(MsgRef("sent", Len(out)), "posted", t)}
    ELSE st

\* Faulty variant of cmd_seller: registering also asks the gateway for an
\* invoice.
SellerCreatesInvoiceMut ==
    /\ Len(updates) < MaxUpdates
    /\ \E u \in Users, text \in Texts("/seller", Wallets) :
         LET parts == Split(text)
             n == Len(updates) + 1
         IN /\ ~TooShort(parts)
            /\ updates' = Append(updates, Update("bot", u, text))
            /\ user_roles' = Register(user_roles, u, "seller", parts[2])
            /\ sent' = Append(sent,
                         Message(n, "registered", <<"seller", parts[2]>>, None))
            /\ http' = Append(http, Request("POST", "inv_1"))
    /\ UNCHANGED <<pay_tasks, deleted, now, stamps, provVars, resVars, inviteVars,
                   gateVars>>
cmd_seller == RegisterCommand("/seller", "seller")

cmd_buyer == RegisterCommand("/buyer", "buyer")

\* bot.py cmd_pay up to the return of answer_photo: the two fetches (one in
\* cmd_pay, one inside generate_payment_qr), the QR and the photo message.
cmd_pay ==
    /\ Len(updates) < MaxUpdates
    /\ \E u \in Users, text \in Texts("/pay", InvoiceIds) :
         LET parts == Split(text)
             n == Len(updates) + 1
             invoice_id == parts[2]
             get == Request("GET", invoice_id)
         IN /\ updates' = Append(updates, Update("bot", u, text))
            /\ IF TooShort(parts)
               THEN /\ sent' = Append(sent, Message(n, "usage", <<"/pay">>, None))
                    /\ UNCHANGED <<http, pay_tasks>>
               ELSE \E first \in GetOutcomes(invoice_id),
                       second \in GetOutcomes(invoice_id), posted \in BOOLEAN :
                      LET res == bot_generate_payment_qr(invoice)
                          caption == <<"Invoice Payment">> \o <<invoice_id>>
                                     \o Str(Get(invoice, "checkoutLink"))
                      IN IF first # "ok"
                         THEN /\ http' = Append(http, get)
                              /\ sent' = Append(sent, Message(n, "error", <<first>>, None))
                              /\ UNCHANGED pay_tasks
                         ELSE IF second # "ok"
                         THEN /\ http' = http \o <<get, get>>
                              /\ sent' = Append(sent, Message(n, "error", <<second>>, None))
                              /\ UNCHANGED pay_tasks
                         ELSE IF res.status # "ok"
                         THEN /\ http' = http \o <<get, get>>
                              /\ sent' = Append(sent,
                                           Message(n, "error", <<res.status>>, None))
                              /\ UNCHANGED pay_tasks
                         ELSE IF ~posted
                         THEN /\ http' = http \o <<get, get>>
                              /\ sent' = Append(sent,
                                           Message(n, "error", <<"answer_photo">>, None))
                              /\ UNCHANGED pay_tasks
                         ELSE /\ http' = http \o <<get, get>>
                              /\ sent' = Append(sent, Message(n, "photo", caption, res.png))
                              /\ pay_tasks' = pay_tasks \cup
                                   {[update |-> n, display |-> Len(sent) + 1,
                                     pc |-> "sleep", wake |-> now + AUTO_DELETE]}
    /\ stamps' = Posted(sent', stamps, now)
    /\ UNCHANGED <<user_roles, deleted, now, provVars, resVars, inviteVars,
                   gateVars>>

\* The event loop has nothing to run until a sleeping cmd_pay is due: time
\* passes to the earliest wake-up.
Tick ==
    /\ \E t \in pay_tasks :
         /\ t.pc = "sleep"
         /\ t.wake > now
         /\ \A o \in pay_tasks : o.pc = "sleep" => o.wake >= t.wake
         /\ now' = t.wake
    /\ UNCHANGED <<user_roles, updates, sent, http, pay_tasks, deleted, stamps,
                   provVars, resVars, inviteVars,
                   gateVars>>

\* await asyncio.sleep(60); await msg.delete()
msg_delete ==
    /\ \E t \in pay_tasks, ok \in BOOLEAN :
         /\ t.pc = "sleep"
         /\ now >= t.wake
         /\ IF ok
            THEN /\ deleted' = deleted \cup {MsgRef("sent", t.display)}
                 /\ stamps' = stamps \cup
                      {Stamp(MsgRef("sent", t.display), "deleted", now)}
                 /\ pay_tasks' = (pay_tasks \ {t}) \cup {[t EXCEPT !.pc = "delete"]}
                 /\ UNCHANGED sent
            ELSE /\ sent' = Append(sent, Message(t.update, "error", <<"delete">>, None))
                 /\ pay_tasks' = pay_tasks \ {t}
                 /\ UNCHANGED <<deleted, stamps>>
    /\ UNCHANGED <<user_roles, updates, http, now, provVars, resVars, inviteVars,
                   gateVars>>

\* await message.delete()
message_delete ==
    /\ \E t \in pay_tasks, ok \in BOOLEAN :
         /\ t.pc = "delete"
         /\ pay_tasks' = pay_tasks \ {t}
         /\ IF ok
            THEN /\ deleted' = deleted \cup {MsgRef("updates", t.update)}
                 /\ stamps' = stamps \cup
                      {Stamp(MsgRef("updates", t.update), "deleted", now)}
                 /\ UNCHANGED sent
            ELSE /\ sent' = Append(sent, Message(t.update, "error", <<"delete">>, None))
                 /\ UNCHANGED <<deleted, stamps>>
    /\ UNCHANGED <<user_roles, updates, http, now, provVars, resVars, inviteVars,
                   gateVars>>

\* bot_groups.py cmd_pay: one fetch inside generate_payment_qr, the QR written
\* to a file and sent with the URI in the caption; nothing is deleted later.
groups_cmd_pay ==
    /\ Len(updates) < MaxUpdates
    /\ \E u \in Users, text \in Texts("/pay", InvoiceIds) :
         LET args == Split(text)
             n == Len(updates) + 1
             invoice_id == args[2]
             get == Request("GET", invoice_id)
         IN /\ updates' = Append(updates, Update("bot_groups", u, text))
            /\ IF TooShort(args)
               THEN /\ sent' = Append(sent, Message(n, "usage", <<"/pay">>, None))
                    /\ UNCHANGED http
               ELSE \E got \in GetOutcomes(invoice_id), posted \in BOOLEAN :
                      LET res == bot_groups_generate_payment_qr(invoice, FALSE)
                          caption == <<"Payment QR for invoice">> \o <<invoice_id>>
                                     \o Str(res.uri)
                          detail == IF got # "ok" THEN got
                                    ELSE IF res.status # "ok" THEN res.status
                                    ELSE "reply_photo"
                      IN /\ http' = Append(http, get)
                         /\ IF got = "ok" /\ res.status = "ok" /\ posted
                            THEN sent' = Append(sent, Message(n, "photo", caption, res.png))
                            ELSE sent' = Append(sent, Message(n, "error", <<detail>>, None))
    /\ stamps' = Posted(sent', stamps, now)
    /\ UNCHANGED <<user_roles, pay_tasks, deleted, now, provVars, resVars, inviteVars,
                   gateVars>>

InitBot ==
    /\ user_roles = << >>
    /\ updates = << >>
    /\ sent = << >>
    /\ http = << >>
    /\ pay_tasks = {}
    /\ deleted = {}
    /\ now = 0
    /\ stamps = {}

NextBot ==
    \/ cmd_seller
    \/ cmd_buyer
    \/ cmd_pay
    \/ Tick
    \/ msg_delete
    \/ message_delete
    \/ groups_cmd_pay

\* ============================================ /create of bot.py, bot_groups.py
\* GROUP_CHAT_ID = int(os.getenv("GROUP_CHAT_ID", "0")): the one group both
\* programs create their invite links for.
GROUP_CHAT_ID == 1001

\* TOPIC_IDS as parsed from the environment: unset, or two topics.
TopicLists == {<< >>, <<11, 12>>}

\* bot.create_chat_invite_link(chat_id=..., name=f"Escrow Topic {topic_id}"),
\* made for the command `to`.
Invite(chat, topic, to) == [chat |-> chat, topic |-> topic, to |-> to]

\* An exception raised in `step` while the command `update` was handled.
Exception(update, step, error) == [update |-> update, step |-> step, error |-> error]

\* bot.py: invite = await generate_group_invite(); await message.answer(...).
\* Neither the callback nor the command handler has a try block, so whatever
\* generate_group_invite or the answer raises leaves the handler.
InviteCommand(text) ==
    /\ Len(updates) < MaxUpdates
    /\ \E u \in Users :
         LET n == Len(updates) + 1
         IN /\ updates' = Append(updates, Update("bot", u, text))
            /\ IF TOPIC_IDS = << >>
               THEN /\ exceptions' = exceptions \cup
                         {Exception(n, "generate_group_invite", "ValueError")}
                    /\ UNCHANGED <<invites, sent>>
               ELSE \E k \in 1..Len(TOPIC_IDS), ok \in BOOLEAN, answered \in BOOLEAN :
                      IF ~ok
                      THEN /\ exceptions' = exceptions \cup
                                {Exception(n, "generate_group_invite", "TelegramAPIError")}
                           /\ UNCHANGED <<invites, sent>>
                      ELSE /\ invites' = Append(invites,
                                           Invite(GROUP_CHAT_ID, TOPIC_IDS[k], n))
                           /\ IF answered
                              THEN /\ sent' = Append(sent,
                                                Message(n, "invite", <<"link">>, None))
                                   /\ UNCHANGED exceptions
                              ELSE /\ exceptions' = exceptions \cup
                                        {Exception(n, "answer", "TelegramAPIError")}
                                   /\ UNCHANGED sent
    /\ UNCHANGED <<TOPIC_IDS, user_roles, http, pay_tasks, deleted, now, stamps,
                   provVars, resVars, gateVars>>

\* @dp.callback_query_handler(lambda c: c.data == "create_group")
callback_create_group == InviteCommand(<<"create_group">>)

\* @dp.message_handler(commands=["create"])
cmd_create == InviteCommand(<<"/create">>)

\* bot_groups.py cmd_create: the missing topics are answered with a message;
\* the link call and the reply are outside any try block.
groups_cmd_create ==
    /\ Len(updates) < MaxUpdates
    /\ \E u \in Users :
         LET n == Len(updates) + 1
         IN /\ updates' = Append(updates, Update("bot_groups", u, <<"/create">>))
            /\ IF TOPIC_IDS = << >>
               THEN /\ sent' = Append(sent,
                                 Message(n, "error", <<"No topic IDs configured">>, None))
                    /\ UNCHANGED <<invites, exceptions>>
               ELSE \E k \in 1..Len(TOPIC_IDS), ok \in BOOLEAN, replied \in BOOLEAN :
                      IF ~ok
                      THEN /\ exceptions' = exceptions \cup
                                {Exception(n, "create_chat_invite_link", "TelegramAPIError")}
                           /\ UNCHANGED <<invites, sent>>
                      ELSE /\ invites' = Append(invites,
                                           Invite(GROUP_CHAT_ID, TOPIC_IDS[k], n))
                           /\ IF replied
                              THEN /\ sent' = Append(sent,
                                                Message(n, "invite", <<"link">>, None))
                                   /\ UNCHANGED exceptions
                              ELSE /\ exceptions' = exceptions \cup
                                        {Exception(n, "reply", "TelegramAPIError")}
                                   /\ UNCHANGED sent
    /\ UNCHANGED <<TOPIC_IDS, user_roles, http, pay_tasks, deleted, now, stamps,
                   provVars, resVars, gateVars>>

InitInvite ==
    /\ TOPIC_IDS \in TopicLists
    /\ invites = << >>
    /\ exceptions = {}

NextInvite ==
    \/ callback_create_group
    \/ cmd_create
    \/ groups_cmd_create

\* ===================================== gateway functions of the three programs
\* Both credentials of the gateway, as the .env file sets them.
Credentials == {"BTCPAY_API_KEY", "BTCPAY_STORE_ID"}

\* The status values of an invoice: those of the gateway and one it does not
\* document.
Statuses == {<<"New">>, <<"Processing">>, <<"Settled">>, <<"Expired">>,
             <<"settled?">>}

\* GET /invoices/inv_1 as the status check sees it; the key may be absent.
StatusInvoices ==
    {[checkoutLink |-> CheckoutLink]}
    \cup {[checkoutLink |-> CheckoutLink, status |-> st] : st \in Statuses}

\* requests.post / requests.get with timeout=30, then raise_for_status().
HttpOutcomes == {"ok", "Timeout", "ConnectionError", "HTTPError"}

\* btcpay.py _require_env: the names whose value is unset or empty.
Missing(e) == Credentials \ e

\* _headers(): btcpay.py and bot_groups.py raise RuntimeError when a credential
\* is missing; bot.py formats whatever it has into the header.
Headers(prog, e) ==
    IF prog \in {"btcpay", "bot_groups"} /\ Missing(e) # {}
    THEN "RuntimeError"
    ELSE "ok"

\* Faulty variant of Send: a request that timed out is sent again.
RetryOnTimeoutMut(request, outcome) ==
    IF outcome = "Timeout" THEN <<request, request>> ELSE <<request>>
\* One requests.post(...) or requests.get(...): the request goes out once,
\* whatever comes back.
Send(request, outcome) == <<request>>

\* A call of a gateway function: its result (the error raised, or what it
\* returned) and the status of the invoice it fetched, if it fetched one.
LibCall(fn, prog, result, seen) ==
    [fn |-> fn, prog |-> prog, result |-> result, seen |-> seen]

\* create_invoice of btcpay.py and of bot_groups.py: _headers() is evaluated
\* as an argument of requests.post, before anything is sent.
create_invoice(prog) ==
    /\ Len(lib_calls) < MaxCalls
    /\ IF Headers(prog, env) # "ok"
       THEN /\ lib_calls' = Append(lib_calls,
                 LibCall("create_invoice", prog, Headers(prog, env), None))
            /\ UNCHANGED http
       ELSE \E outcome \in HttpOutcomes :
              /\ http' = http \o Send(Request("POST", "invoices"), outcome)
              /\ lib_calls' = Append(lib_calls,
                   LibCall("create_invoice", prog, outcome, None))
    /\ UNCHANGED <<env, invoice, qr, user_roles, updates, sent, pay_tasks, deleted,
                   now, stamps, provVars, inviteVars>>

\* get_invoice of btcpay.py, bot_groups.py and bot.py.
get_invoice(prog) ==
    /\ Len(lib_calls) < MaxCalls
    /\ IF Headers(prog, env) # "ok"
       THEN /\ lib_calls' = Append(lib_calls,
                 LibCall("get_invoice", prog, Headers(prog, env), None))
            /\ UNCHANGED http
       ELSE \E outcome \in HttpOutcomes :
              /\ http' = http \o Send(Request("GET", "inv_1"), outcome)
              /\ lib_calls' = Append(lib_calls,
                   LibCall("get_invoice", prog, outcome,
                           IF outcome = "ok" THEN Get(invoice, "status") ELSE None))
    /\ UNCHANGED <<env, invoice, qr, user_roles, updates, sent, pay_tasks, deleted,
                   now, stamps, provVars, inviteVars>>

\* Faulty variant of Paid: an invoice being processed counts as paid.
PaidOrProcessingMut(inv) ==
    Get(inv, "status") \in {Some(<<"Settled">>), Some(<<"Processing">>)}
\* inv.get("status") == "Settled"
Paid(inv) == Get(inv, "status") = Some(<<"Settled">>)

\* btcpay.py is_invoice_paid: get_invoice, then the comparison.
is_invoice_paid ==
    /\ Len(lib_calls) < MaxCalls
    /\ IF Headers("btcpay", env) # "ok"
       THEN /\ lib_calls' = Append(lib_calls,
                 LibCall("is_invoice_paid", "btcpay", Headers("btcpay", env), None))
            /\ UNCHANGED http
       ELSE \E outcome \in HttpOutcomes :
              /\ http' = http \o Send(Request("GET", "inv_1"), outcome)
              /\ lib_calls' = Append(lib_calls,
                   IF outcome # "ok"
                   THEN LibCall("is_invoice_paid", "btcpay", outcome, None)
                   ELSE LibCall("is_invoice_paid", "btcpay",
                                IF Paid(invoice) THEN "True" ELSE "False",
                                Get(invoice, "status")))
    /\ UNCHANGED <<env, invoice, qr, user_roles, updates, sent, pay_tasks, deleted,
                   now, stamps, provVars, inviteVars>>

\* The gateway moves the invoice to another status; no program does.
gateway_transition ==
    /\ "status" \in DOMAIN invoice
    /\ \E st \in Statuses \ {invoice["status"]} :
         invoice' = [invoice EXCEPT !["status"] = st]
    /\ UNCHANGED <<qr, provVars, botVars, inviteVars, gateVars>>

InitGateway ==
    /\ env \in SUBSET Credentials
    /\ lib_calls = << >>
    /\ invoice \in StatusInvoices

NextGateway ==
    \/ \E prog \in {"btcpay", "bot_groups"} : create_invoice(prog)
    \/ \E prog \in {"btcpay", "bot_groups", "bot"} : get_invoice(prog)
    \/ is_invoice_paid
    \/ gateway_transition

\* ============================================================ specifications
\* The invoice inv_1 of the gateway while commands are handled.
DefaultInvoices == PayInvoices

\* The /create handlers of bot.py and bot_groups.py have handled nothing.
IdleInvite ==
    /\ TOPIC_IDS = <<11, 12>>
    /\ invites = << >>
    /\ exceptions = {}

\* No gateway function has been called; the credentials are set.
IdleGateway ==
    /\ env = Credentials
    /\ lib_calls = << >>

\* The provisioning flows of app_tdlib.py.
InitP ==
    /\ InitProvision
    /\ InitBot
    /\ invoice = CHOOSE i \in DefaultInvoices : PaymentMethods(i) = << >>
    /\ qr = [v \in Variants |-> None]
    /\ IdleInvite
    /\ IdleGateway

SpecProvision == InitP /\ [][NextProvision]_vars

\* The command handlers of bot.py and bot_groups.py.
InitB ==
    /\ InitProvision
    /\ InitBot
    /\ invoice \in DefaultInvoices
    /\ qr = [v \in Variants |-> None]
    /\ IdleInvite
    /\ IdleGateway

SpecBot == InitB /\ [][NextBot]_vars

\* The resolvers applied to every invoice of the bounded domain.
InitR ==
    /\ InitProvision
    /\ InitBot
    /\ InitResolve
    /\ IdleInvite
    /\ IdleGateway

SpecResolve == InitR /\ [][NextResolve]_vars

\* The /create handlers of bot.py and bot_groups.py.
InitI ==
    /\ InitProvision
    /\ InitBot
    /\ invoice = CHOOSE i \in DefaultInvoices : PaymentMethods(i) = << >>
    /\ qr = [v \in Variants |-> None]
    /\ InitInvite
    /\ IdleGateway

SpecInvite == InitI /\ [][NextInvite]_vars

\* The gateway functions called with and without credentials.
InitG ==
    /\ InitProvision
    /\ InitBot
    /\ qr = [v \in Variants |-> None]
    /\ IdleInvite
    /\ InitGateway

SpecGateway == InitG /\ [][NextGateway]_vars

\* Concurrent handle_create runs from the command to the end of the
\* elevation step, or to the error reply: the part of create_new_group that
\* reads and fills the username cache.
Runs == 1..NumRuns

InitC ==
    /\ BOT_USERNAME_CACHE = None
    /\ main_pc = "start"
    /\ chats = << >>
    /\ req = [r \in Runs |-> InitReq]
    /\ InitBot
    /\ invoice = CHOOSE i \in DefaultInvoices : PaymentMethods(i) = << >>
    /\ qr = [v \in Variants |-> None]
    /\ IdleInvite
    /\ IdleGateway

NextCache ==
    \/ main
    \/ \E r \in Runs :
         \/ handle_create(r)
         \/ get_me(r)
         \/ create_supergroup(r)
         \/ add_chat_members(r)
         \/ promote_chat_member(r)
         \/ reply_error(r)

SpecCache == InitC /\ [][NextCache]_vars

Init == InitB

Next == NextProvision \/ NextBot \/ NextResolve \/ NextInvite \/ NextGateway

Spec == Init /\ [][Next]_vars

\* ==================================================================== claims
\* What the call log of a run says about one platform call.
Attempted(q, name) == \E i \in 1..Len(q.calls) : q.calls[i].call = name
Succeeded(q, name) == \E i \in 1..Len(q.calls) : q.calls[i].call = name /\ q.calls[i].ok
FailedCall(q, name) == \E i \in 1..Len(q.calls) : q.calls[i].call = name /\ ~q.calls[i].ok

LinkObtained(q) ==
    Succeeded(q, "export_chat_invite_link") \/ Succeeded(q, "create_chat_invite_link")

\* C1: when channel creation and the invite-link step succeed, create_new_group
\* returns the handle (invite link, title, chat id) whatever the outcomes of
\* the bot-add and elevation calls; a failure of either is never the error of
\* the run, and the step after it is always attempted.
C1_BotStepsNonFatal ==
    \A r \in Requests :
      LET q == req[r]
      IN /\ (Succeeded(q, "create_supergroup") /\ LinkObtained(q))
              => /\ q.ret # None
                 /\ q.ret[1] = [invite_link |-> q.link[1], title |-> q.title,
                                chat_id |-> q.chat]
                 /\ q.chat \in DOMAIN chats
         /\ q.raised \notin {Some("add_chat_members"), Some("promote_chat_member")}
         /\ (Attempted(q, "add_chat_members") /\ q.pc # "promote")
              => Attempted(q, "promote_chat_member")
         /\ (Attempted(q, "promote_chat_member") /\ q.pc # "export")
              => Attempted(q, "export_chat_invite_link")

\* A run in which both bot steps failed and the handle was still returned.
C1_Witness ==
    \E r \in Requests :
      /\ FailedCall(req[r], "add_chat_members")
      /\ FailedCall(req[r], "promote_chat_member")
      /\ req[r].ret # None

\* C2: the fallback call is attempted exactly when the export call failed; the
\* handle carries the exported link when export succeeds and the fallback's
\* link when export fails and the fallback succeeds; the invite-link step fails
\* (error raised, no handle) exactly when both calls fail.
C2_FallbackIffExportFails ==
    \A r \in Requests :
      LET q == req[r]
          both == FailedCall(q, "export_chat_invite_link")
                  /\ FailedCall(q, "create_chat_invite_link")
      IN /\ Attempted(q, "create_chat_invite_link")
              => FailedCall(q, "export_chat_invite_link")
         /\ (FailedCall(q, "export_chat_invite_link") /\ q.pc # "fallback")
              => Attempted(q, "create_chat_invite_link")
         /\ Succeeded(q, "export_chat_invite_link")
              => q.ret # None /\ q.ret[1].invite_link = [via |-> "export", chat |-> q.chat]
         /\ (FailedCall(q, "export_chat_invite_link")
             /\ Succeeded(q, "create_chat_invite_link"))
              => q.ret # None /\ q.ret[1].invite_link = [via |-> "create", chat |-> q.chat]
         /\ (Attempted(q, "export_chat_invite_link") /\ q.pc # "fallback")
              => (q.ret = None <=> both)
         /\ both => q.raised = Some("create_chat_invite_link")

\* A run whose export failed and whose fallback delivered the link.
C2_Witness ==
    \E r \in Requests :
      /\ FailedCall(req[r], "export_chat_invite_link")
      /\ Succeeded(req[r], "create_chat_invite_link")
      /\ req[r].ret # None
      /\ req[r].ret[1].invite_link.via = "create"

\* The calls create_new_group makes as the user session, in the order made.
UserCalls(q) ==
    LET user == SelectSeq(q.calls, LAMBDA c : c.by = "user")
    IN [i \in 1..Len(user) |-> user[i].call]

ProvisionOrder ==
    <<"create_supergroup", "add_chat_members", "promote_chat_member",
      "export_chat_invite_link", "create_chat_invite_link">>

\* C3: the provisioning calls are made in the order create, add, elevate,
\* export (then the fallback); when the creation call fails the run fails and
\* none of the later calls is made.
C3_FixedOrder ==
    \A r \in Requests :
      LET q == req[r]
          made == UserCalls(q)
      IN /\ Len(made) <= Len(ProvisionOrder)
         /\ made = SubSeq(ProvisionOrder, 1, Len(made))
         /\ FailedCall(q, "create_supergroup")
              => /\ made = <<"create_supergroup">>
                 /\ q.ret = None
                 /\ q.raised = Some("create_supergroup")
                 /\ q.pc \in {"except", "done"}

\* A finished run whose creation call failed.
C3_Witness ==
    \E r \in Requests :
      /\ FailedCall(req[r], "create_supergroup")
      /\ req[r].pc = "done"


\* The /seller and /buyer commands bot.py confirmed with a "registered" reply.
Confirmed(i) ==
    \E k \in 1..Len(sent) : sent[k].to = i /\ sent[k].kind = "registered"

Registrations(u) ==
    {i \in 1..Len(updates) :
       /\ updates[i].prog = "bot"
       /\ updates[i].from = u
       /\ updates[i].text[1] \in {"/seller", "/buyer"}
       /\ Confirmed(i)}

\* The role and the address a registration command states, read off its text:
\* the command name and the word after the blank.
Stated(i) ==
    [role |-> IF updates[i].text[1] = "/seller" THEN "seller" ELSE "buyer",
     address |-> updates[i].text[3]]

\* C4: the registry entry of each identity is the role and the address of that
\* identity's most recent successful registration command, both from the same
\* command; an identity that never registered has no entry.
C4_LastRegistrationWins ==
    \A u \in Users :
      LET regs == Registrations(u)
      IN IF regs = {}
         THEN u \notin DOMAIN user_roles
         ELSE /\ u \in DOMAIN user_roles
              /\ user_roles[u] = Stated(CHOOSE i \in regs : \A j \in regs : j <= i)

\* An identity registered twice, with a different role and a different address.
C4_Witness ==
    \E u \in Users :
      \E i, j \in Registrations(u) :
        /\ i < j
        /\ Stated(i).role # Stated(j).role
        /\ Stated(i).address # Stated(j).address
        /\ user_roles[u] = Stated(j)

\* A command text that carries no argument: nothing but blanks follows the
\* command name.
NoArgument(text) == \A i \in 2..Len(text) : text[i] = " "

\* C5: handling a /seller, /buyer or /pay command without an argument sends
\* the usage message and nothing else: the registry, the gateway requests, the
\* pending deletions and the deleted messages are unchanged, and no payment
\* display is sent.
C5_NoArgumentNoChange ==
    [][(Len(updates') = Len(updates) + 1
        /\ NoArgument(updates'[Len(updates')].text))
       => /\ user_roles' = user_roles
          /\ http' = http
          /\ pay_tasks' = pay_tasks
          /\ deleted' = deleted
          /\ sent' = Append(sent, Message(Len(updates'), "usage",
                                          <<updates'[Len(updates')].text[1]>>, None))]_vars

\* A /seller without argument, then a /pay with only a trailing blank handled
\* by bot_groups.py: each got its usage message and no request was issued.
C5_Witness ==
    /\ Len(updates) = 2
    /\ \A i \in 1..2 :
         /\ NoArgument(updates[i].text)
         /\ \E k \in 1..Len(sent) : sent[k].to = i /\ sent[k].kind = "usage"
    /\ updates[1].text[1] = "/seller"
    /\ updates[2].text = <<"/pay", " ">>
    /\ updates[2].prog = "bot_groups"
    /\ user_roles = << >>
    /\ http = << >>

\* The method a resolver selected, for a result r on the invoice.
Selected(r) == PaymentMethods(invoice)[r.chosen]

HasLightning(methods) == \E i \in 1..Len(methods) : IsLightning(methods[i])

\* C6: on an invoice with at least one method, every resolver without the
\* Lightning preference, and bot_groups' resolver with the preference when no
\* method is labeled Lightning, selects the first method of the list; resolving
\* again leaves the outcome as it was.
C6_FirstMethodByDefault ==
    /\ [](\A v \in Variants :
            (/\ qr[v] # None
             /\ Len(PaymentMethods(invoice)) >= 1
             /\ (v = "bot_groups_ln" => ~HasLightning(PaymentMethods(invoice))))
            => qr[v][1].chosen = 1)
    /\ [][\A v \in Variants : qr[v] # None => qr'[v] = qr[v]]_vars

\* Without the preference the first method is taken although a Lightning
\* method follows it.
C6_Witness ==
    /\ Len(PaymentMethods(invoice)) = 2
    /\ ~IsLightning(PaymentMethods(invoice)[1])
    /\ IsLightning(PaymentMethods(invoice)[2])
    /\ qr["bot_groups"] # None
    /\ qr["bot_groups"][1].status = "ok"
    /\ qr["bot_groups"][1].chosen = 1

\* C7: with the Lightning preference, an invoice that has a method labeled
\* Lightning gets a Lightning method selected, wherever it stands in the list.
C7_LightningPreferred ==
    \A v \in {"bot_groups_ln"} :
      (qr[v] # None /\ HasLightning(PaymentMethods(invoice)))
        => /\ qr[v][1].chosen \in 1..Len(PaymentMethods(invoice))
           /\ IsLightning(Selected(qr[v][1]))

\* The Lightning method stands second, behind an on-chain method.
C7_Witness ==
    /\ Len(PaymentMethods(invoice)) = 2
    /\ ~IsLightning(PaymentMethods(invoice)[1])
    /\ IsLightning(PaymentMethods(invoice)[2])
    /\ qr["bot_groups_ln"] # None
    /\ qr["bot_groups_ln"][1].status = "ok"
    /\ qr["bot_groups_ln"][1].chosen = 2

\* C8: on an invoice without payment methods (an empty list, or the list or the
\* checkout object absent) every resolver fails with the no-payment-methods
\* error, under both preferences, with no URI and no image.
C8_NoMethodsFails ==
    \A v \in Variants :
      (qr[v] # None /\ Len(PaymentMethods(invoice)) = 0)
        => /\ qr[v][1].status = "NoPaymentMethods"
           /\ qr[v][1].uri = None
           /\ qr[v][1].png = None

\* Every resolver has failed on an invoice that has no checkout object.
C8_Witness ==
    /\ "checkout" \notin DOMAIN invoice
    /\ \A v \in Variants : qr[v] # None /\ qr[v][1].status = "NoPaymentMethods"

\* The method a resolver takes from a non-empty list.
Taken(v) ==
    PaymentMethods(invoice)[Choose(PaymentMethods(invoice), v = "bot_groups_ln")]

\* C9: whenever the method a resolver takes has no destination (absent or
\* empty), the resolver fails with the no-destination error and builds no URI
\* and no image; stated of every resolver, bot.py's included.
C9_NoDestinationFails ==
    \A v \in Variants :
      (/\ qr[v] # None
       /\ Len(PaymentMethods(invoice)) >= 1
       /\ ~Truthy(Get(Taken(v), "destination")))
        => /\ qr[v][1].status = "NoDestination"
           /\ qr[v][1].uri = None
           /\ qr[v][1].png = None

\* A method carries an amount when the key is present with a non-empty value.
CarriesAmount(m) == "amount" \in DOMAIN m /\ m["amount"] # << >>

\* C10: when the selected method is on-chain and has destination D, the URI is
\* bitcoin:D?amount=N if the method carries an amount N, and bitcoin:D, without
\* "?" or amount parameter, if it carries none.
C10_OnChainUri ==
    \A v \in Variants :
      (/\ qr[v] # None
       /\ qr[v][1].status = "ok"
       /\ ~IsLightning(Selected(qr[v][1]))
       /\ Truthy(Get(Selected(qr[v][1]), "destination")))
        => LET m == Selected(qr[v][1])
           IN qr[v][1].uri =
                IF CarriesAmount(m)
                THEN Some(<<"bitcoin:">> \o m["destination"]
                          \o <<"?amount=">> \o m["amount"])
                ELSE Some(<<"bitcoin:">> \o m["destination"])

\* An on-chain method without the amount key resolved to the bare URI.
C10_Witness ==
    /\ Len(PaymentMethods(invoice)) >= 1
    /\ "amount" \notin DOMAIN PaymentMethods(invoice)[1]
    /\ ~IsLightning(PaymentMethods(invoice)[1])
    /\ qr["bot_groups"] # None
    /\ qr["btcpay"] # None
    /\ qr["bot_groups"][1].uri = Some(<<"bitcoin:", "bc1q">>)
    /\ qr["btcpay"][1].uri = Some(<<"bitcoin:", "bc1q">>)


\* C11: in bot_groups.py, whenever the method taken is labeled Lightning and
\* has destination D, the URI is lightning:D without an amount suffix, whether
\* the method carries an amount or not and whether it was taken under the
\* preference or as the first method of the list.
C11_LightningUri ==
    \A v \in {"bot_groups", "bot_groups_ln"} :
      (/\ qr[v] # None
       /\ Len(PaymentMethods(invoice)) >= 1
       /\ IsLightning(Taken(v))
       /\ Truthy(Get(Taken(v), "destination")))
        => /\ qr[v][1].status = "ok"
           /\ qr[v][1].uri = Some(<<"lightning:">> \o Taken(v)["destination"])

\* A Lightning method that carries an amount, ahead of an on-chain method: it
\* is taken as the first of the list without the preference and as the
\* Lightning method under the preference, and both URIs are lightning:bc1q.
C11_Witness ==
    /\ Len(PaymentMethods(invoice)) = 2
    /\ IsLightning(PaymentMethods(invoice)[1])
    /\ CarriesAmount(PaymentMethods(invoice)[1])
    /\ ~IsLightning(PaymentMethods(invoice)[2])
    /\ qr["bot_groups"] # None
    /\ qr["bot_groups_ln"] # None
    /\ qr["bot_groups"][1].uri = Some(<<"lightning:", "bc1q">>)
    /\ qr["bot_groups_ln"][1].uri = Some(<<"lightning:", "bc1q">>)


\* The calls made through the bot client: bot.get_me, message.reply (the
\* message belongs to the bot client) and bot.send_message.
BotCalls == {"get_me", "reply", "send_message"}

\* C16: create_supergroup, add_chat_members, promote_chat_member and both
\* invite-link calls are always issued through the user client; the bot client
\* is used for get_me and for sending messages only.
C16_UserIdentity ==
    \A r \in Requests : \A i \in 1..Len(req[r].calls) :
      LET c == req[r].calls[i]
      IN /\ c.call \in {ProvisionOrder[k] : k \in 1..Len(ProvisionOrder)}
              => c.by = "user"
         /\ c.by = "bot" => c.call \in BotCalls
         /\ c.by \in {"user", "bot"}

\* A finished run that looked up the username, made all five provisioning
\* calls (the fallback included) and posted into the new group.
C16_Witness ==
    \E r \in Requests :
      /\ req[r].pc = "done"
      /\ Attempted(req[r], "get_me")
      /\ Attempted(req[r], "send_message")
      /\ UserCalls(req[r]) = ProvisionOrder
      /\ \E i \in 1..Len(req[r].calls) :
           req[r].calls[i].call = "create_chat_invite_link"
           /\ req[r].calls[i].by = "user"


\* The step handles a /seller or /buyer command sent by u.
RegistrationBy(u) ==
    /\ Len(updates') = Len(updates) + 1
    /\ updates'[Len(updates')].from = u
    /\ updates'[Len(updates')].text[1] \in {"/seller", "/buyer"}

\* C17: a registration by one identity changes the entry of that identity
\* only: in every step of every interleaving of the handlers, the entry of an
\* identity b (its presence, role and address) is unchanged unless the step is
\* the handling of a registration command of b.
C17_OnlyOwnEntry ==
    [][\A b \in Users :
         ~RegistrationBy(b)
           => /\ (b \in DOMAIN user_roles') = (b \in DOMAIN user_roles)
              /\ b \in DOMAIN user_roles => user_roles'[b] = user_roles[b]]_vars

\* Two identities registered one after the other with different roles and
\* addresses; the entry of the first is still the one it registered.
C17_Witness ==
    /\ Len(updates) = 2
    /\ updates[1].from # updates[2].from
    /\ Registrations(updates[1].from) = {1}
    /\ Registrations(updates[2].from) = {2}
    /\ Stated(1).role # Stated(2).role
    /\ Stated(1).address # Stated(2).address
    /\ user_roles[updates[1].from] = Stated(1)
    /\ user_roles[updates[2].from] = Stated(2)


\* The step handles a command named cmd.
Handles(cmd) ==
    /\ Len(updates') = Len(updates) + 1
    /\ updates'[Len(updates')].text[1] = cmd

\* The replies to a /pay command: the usage message, the payment display, or
\* an error of the gateway, of the resolver or of the messaging calls.
PayReplies(i) ==
    {k \in 1..Len(sent) : sent[k].to = i /\ sent[k].kind \in {"usage", "photo", "error"}}

Displays == {k \in 1..Len(sent) : sent[k].kind = "photo"}

\* No cmd_pay run is still sleeping or deleting for display k.
Quiescent(k) == \A t \in pay_tasks : t.display # k

\* The deletion stamp d is about the display posted with stamp p: it deletes
\* that display or the command the display answers.
About(d, p) ==
    \/ d.ref = p.ref
    \/ d.ref.box = "updates" /\ d.ref.n = sent[p.ref.n].to

\* C12: once a /pay command has posted the payment display and no handler
\* run is left to act on it, the display and the command message are both
\* deleted; and no deletion of either happens less than AUTO_DELETE time units
\* after the display was posted.
C12_AutoDelete ==
    /\ \A k \in Displays :
         Quiescent(k) => /\ MsgRef("sent", k) \in deleted
                         /\ MsgRef("updates", sent[k].to) \in deleted
    /\ \A d \in stamps :
         d.event = "deleted"
           => \E p \in stamps : /\ p.event = "posted"
                                /\ About(d, p)
                                /\ d.at >= p.at + AUTO_DELETE

\* The steps of a /create handler whose failure is fatal to the command.
InviteSteps == {"generate_group_invite", "create_chat_invite_link"}

\* C13: every exception raised in a fatal step of a command handler is turned
\* into a reply to the requester that carries the error detail; here for the
\* /create command and the create_group callback of bot.py and bot_groups.py.
C13_ErrorsReplied ==
    \A x \in exceptions :
      x.step \in InviteSteps
        => \E k \in 1..Len(sent) : /\ sent[k].to = x.update
                                   /\ sent[k].kind = "error"
                                   /\ sent[k].body = <<x.error>>

\* The invite links that were returned to the requester.
Returned ==
    {i \in 1..Len(invites) :
       \E k \in 1..Len(sent) : sent[k].to = invites[i].to /\ sent[k].kind = "invite"}

\* C18: no two /create commands return an invite link to the same channel;
\* here for the handlers of bot.py and bot_groups.py.
C18_OwnChannel ==
    \A i, j \in Returned : i # j => invites[i].chat # invites[j].chat


\* The invoice-creation requests the gateway received, and the calls of
\* create_invoice made.
Posts == SelectSeq(http, LAMBDA q : q.method = "POST")
Creations == SelectSeq(lib_calls, LAMBDA c : c.fn = "create_invoice")

\* C14: one create_invoice call sends at most one creation request: the
\* gateway never receives more creation requests than create_invoice was
\* called, each step sends at most one, and a call that met a transport
\* failure or a timeout has that error as its result.
C14_NoRetry ==
    /\ [](Len(Posts) <= Len(Creations))
    /\ [][/\ Len(http') <= Len(http) + 1
          /\ \A outcome \in HttpOutcomes \ {"ok"} :
               (/\ Len(lib_calls') = Len(lib_calls) + 1
                /\ lib_calls'[Len(lib_calls')].fn = "create_invoice"
                /\ lib_calls'[Len(lib_calls')].result = outcome)
                 => http' = Append(http, Request("POST", "invoices"))]_vars

\* A creation that timed out, then a second call that succeeded: two calls,
\* two creation requests.
C14_Witness ==
    /\ Len(Creations) = 2
    /\ Creations[1].result = "Timeout"
    /\ Creations[2].result = "ok"
    /\ Len(Posts) = 2

\* C15: missing credentials stop the program at start-up: no gateway function
\* fails for them at the time of a call, and no request is sent to the gateway
\* while a credential is missing.
C15_FailAtStartup ==
    /\ \A i \in 1..Len(lib_calls) : lib_calls[i].result # "RuntimeError"
    /\ Missing(env) # {} => http = << >>

\* The answers of is_invoice_paid.
Answers ==
    {i \in 1..Len(lib_calls) :
       lib_calls[i].fn = "is_invoice_paid" /\ lib_calls[i].result \in {"True", "False"}}

\* C20: is_invoice_paid answers True exactly when the status of the invoice it
\* fetched is "Settled" and False for every other status, unknown or absent;
\* the call sends exactly one GET request and leaves the invoice as it is.
C20_SettledOnly ==
    /\ [](\A i \in Answers :
            lib_calls[i].result = "True" <=> lib_calls[i].seen = Some(<<"Settled">>))
    /\ [][(/\ Len(lib_calls') = Len(lib_calls) + 1
           /\ lib_calls'[Len(lib_calls')].fn = "is_invoice_paid")
          => /\ invoice' = invoice
             /\ lib_calls'[Len(lib_calls')].result # "RuntimeError"
                  => http' = Append(http, Request("GET", "inv_1"))]_vars

\* The check answered True on a settled invoice and, after the gateway moved
\* the invoice to a status outside the known set, False.
C20_Witness ==
    /\ Answers = {1, 2}
    /\ lib_calls[1].result = "True"
    /\ lib_calls[1].seen = Some(<<"Settled">>)
    /\ lib_calls[2].result = "False"
    /\ lib_calls[2].seen = Some(<<"settled?">>)
    /\ Len(http) = 2


\* The replies of one kind the requester of a run got.
Replies(q, kind) == {i \in 1..Len(q.replies) : q.replies[i].kind = kind}

\* C21: a /create command handled by handle_create ends with exactly one of a
\* success reply, carrying the title and the invite link, and a failure reply,
\* carrying the error raised; at no time has the requester got both.
C21_OneOutcome ==
    \A r \in Requests :
      LET q == req[r]
      IN /\ ~(Replies(q, "created") # {} /\ Replies(q, "error") # {})
         /\ q.pc = "done"
              => Cardinality(Replies(q, "created") \cup Replies(q, "error")) = 1
         /\ \A i \in Replies(q, "created") :
              /\ q.replies[i].title = q.title
              /\ q.replies[i].link = q.link
         /\ \A i \in Replies(q, "error") : q.replies[i].detail = q.raised


\* The runs whose creation call succeeded; a run makes the call at most once.
Created == {r \in DOMAIN req : Succeeded(req[r], "create_supergroup")}

\* C22: provisioning does not roll back: a run whose export and fallback calls
\* both failed after its creation call succeeded ends without a handle and
\* leaves its channel in existence, and the channels that exist are as many as
\* the creation calls that succeeded, whatever became of the runs.
C22_NoRollback ==
    /\ Cardinality(DOMAIN chats) = Cardinality(Created)
    /\ \A r \in Created : req[r].chat \in DOMAIN chats
    /\ \A r \in DOMAIN req :
         (/\ FailedCall(req[r], "export_chat_invite_link")
          /\ FailedCall(req[r], "create_chat_invite_link"))
           => /\ r \in Created
              /\ req[r].ret = None
              /\ req[r].raised = Some("create_chat_invite_link")
              /\ chats[req[r].chat] = req[r].title

\* A finished run that created its channel, failed both link calls and told
\* the requester so: the channel is still there.
C22_Witness ==
    \E r \in Requests :
      /\ req[r].pc = "done"
      /\ FailedCall(req[r], "export_chat_invite_link")
      /\ FailedCall(req[r], "create_chat_invite_link")
      /\ Replies(req[r], "error") # {}
      /\ Replies(req[r], "created") = {}
      /\ req[r].chat \in DOMAIN chats


\* The lookups of the bot username a run has made.
Lookups(q) == SelectSeq(q.calls, LAMBDA c : c.call = "get_me")

\* C23: the username is resolved before the channel is created: a run whose
\* lookup failed has failed, with no channel created, and a creation call is
\* only made while the cache is filled; a run that starts once the cache is
\* filled goes to the creation call without a lookup, whatever the other runs
\* are doing; and every bot-add and elevation call names the cached username.
C23_CachedUsername ==
    /\ [](\A r \in DOMAIN req :
            LET q == req[r]
            IN /\ Attempted(q, "create_supergroup") => BOT_USERNAME_CACHE # None
               /\ FailedCall(q, "get_me")
                    => /\ ~Attempted(q, "create_supergroup")
                       /\ q.chat = 0
                       /\ q.raised = Some("get_me")
                       /\ q.pc \in {"except", "done"}
               /\ Len(Lookups(q)) <= 1
               /\ \A i \in 1..Len(q.invited) : q.invited[i] = <<"@", BotUsername>>)
    /\ [][/\ BOT_USERNAME_CACHE # None => BOT_USERNAME_CACHE' = BOT_USERNAME_CACHE
          /\ \A r \in DOMAIN req :
               /\ (req[r].pc = "idle" /\ req'[r].pc # "idle" /\ BOT_USERNAME_CACHE # None)
                    => /\ req'[r].pc = "create"
                       /\ Lookups(req'[r]) = << >>
               /\ Lookups(req'[r]) # Lookups(req[r])
                    => req[r].pc = "get_me"]_vars

\* Two concurrent runs before main() has cached the username: the first
\* looked it up and is still between its bot-add and elevation calls; the
\* second started afterwards, made no lookup and named the cached username in
\* both of its calls.
C23_Witness ==
    \E r1, r2 \in DOMAIN req :
      /\ main_pc = "start"
      /\ Succeeded(req[r1], "get_me")
      /\ req[r1].pc = "promote"
      /\ Lookups(req[r2]) = << >>
      /\ req[r2].invited = <<<<"@", BotUsername>>, <<"@", BotUsername>>>>
      /\ Cardinality(DOMAIN chats) = 2


====
